---- MODULE Spec2Model ----
(***************************************************************************)
(* discord-scheduler: the poll registry (Handler.schedulers behind one     *)
(* tokio RwLock), the write-through persistence of ScheduleWrapper, the    *)
(* event handlers of main.rs and the response session of scheduler.rs.     *)
(*                                                                         *)
(* Every event handler is a task.  A task takes one step per stretch of    *)
(* code between two suspension points that matter to the registry: the     *)
(* acquisition of the lock, the code run while the lock is held, the wait  *)
(* for the user's next interaction.                                        *)
(*                                                                         *)
(* Collaborator calls whose failure the code turns into a panic of the     *)
(* handler (.expect) are taken to succeed, except inside handle_close,     *)
(* where they run under the exclusive-write accessor; the message edit of  *)
(* update_message, whose failure the code logs, may fail anywhere.         *)
(***************************************************************************)
EXTENDS Integers, Sequences, FiniteSets, TLC

\* ------------------------------------------------------------------ bounds
MaxPolls == 2
MaxUsers == 2
MaxTasks == 3
MaxSessionTasks == 2
MaxSkip == 1
MaxLines == 3

\* ------------------------------------------------------- program constants
RESP_TIMEOUT == 60 * 14
MaxTitle == 256
MAX_WEEKS == 10

\* The clock advances in steps of half the session timeout.
TickLen == RESP_TIMEOUT \div 2

Ids == 1..MaxPolls
Users == 1..MaxUsers
Tasks == 1..MaxTasks
SessionTasks == 1..MaxSessionTasks

\* chrono::Weekday numbered from Monday; a date is a day number d whose
\* weekday is d % 7.
Sat == 5
Sun == 6
Weekday(d) == d % 7

NoGroup == 0
Role == 1
\* The platform's role membership: user 1 has the role, the others do not.
HasRole(u, role) == u = 1

NoSkip == -1

\* ------------------------------------------------------------ Scheduler::new
RECURSIVE NextSaturday(_)
NextSaturday(d) == IF Weekday(d) = Sat THEN d ELSE NextSaturday(d + 1)

StartDateFromToday(today, skip) ==
    LET start_date == NextSaturday(today)
    IN  IF skip # NoSkip THEN start_date + 7 * skip ELSE start_date

StartDate(today, skip) ==
    LET start_date == NextSaturday(today + 1)
    IN  IF skip # NoSkip THEN start_date + 7 * skip ELSE start_date

RECURSIVE Window(_, _, _)
Window(d, end_date, days) ==
    IF d >= end_date THEN <<>>
    ELSE IF Weekday(d) \in days THEN <<d>> \o Window(d + 1, end_date, days)
    ELSE Window(d + 1, end_date, days)

SchedulerNew(owner, group, message, today, weeks, skip, title, days) ==
    LET start_date == StartDate(today, skip)
        end_date == start_date + 7 * weeks
    IN  [owner |-> owner,
         title |-> title,
         dates |-> Window(start_date, end_date, days),
         blackout_dates |-> {},
         group |-> group,
         message |-> message,
         responses |-> <<>>,
         closed |-> FALSE]

Range(s) == {s[i] : i \in DOMAIN s}

\* HashMap::insert
MapInsert(m, k, v) == [x \in DOMAIN m \cup {k} |-> IF x = k THEN v ELSE m[x]]
\* HashMap::remove
MapRemove(m, k) == [x \in DOMAIN m \ {k} |-> m[x]]

\* ------------------------------------------------------ Scheduler mutations
InsertResponseAlone(s, user, response) ==
    [s EXCEPT !.responses = MapInsert(<<>>, user, response)]

\* add_response, before its update_message
InsertResponse(s, user, response) ==
    [s EXCEPT !.responses = MapInsert(s.responses, user, response)]

\* a set_blackout that adds the dates to the ones already blacked out
ReplaceBlackoutAdds(s, response) ==
    [s EXCEPT !.blackout_dates = @ \cup response]

\* set_blackout, before its update_message
ReplaceBlackout(s, response) == [s EXCEPT !.blackout_dates = response]

SetClosedFlip(s) == [s EXCEPT !.closed = ~@]

\* close, before its update_message
SetClosed(s) == [s EXCEPT !.closed = TRUE]

\* ------------------------------------------------- Scheduler::get_results
\* scheduler.rs 151-153: the dates that get a line, in the order of dates
KeptAll(s) == s.dates

Kept(s) == SelectSeq(s.dates, LAMBDA d : d \notin s.blackout_dates)

\* scheduler.rs 155-160: the users whose response contains the date
UsersOn(s, date) == {u \in DOMAIN s.responses : date \in s.responses[u]}

\* scheduler.rs 164-168: the largest count among the lines, 0 without lines
MaxCount(s) ==
    LET counts == {Cardinality(UsersOn(s, d)) : d \in Range(Kept(s))}
    IN  IF counts = {} THEN 0
        ELSE CHOOSE c \in counts : \A x \in counts : x <= c

MarkedAlways(max, count) == count = max

\* scheduler.rs 172: the line is underlined
Marked(max, count) == max > 0 /\ count = max

\* scheduler.rs 183: the users of a line in ascending order
RECURSIVE Sorted(_)
Sorted(set) ==
    IF set = {} THEN <<>>
    ELSE LET least == CHOOSE u \in set : \A v \in set : u <= v
         IN  <<least>> \o Sorted(set \ {least})

\* The decimal digits of a number, as its Display writes them.
RECURSIVE Digits(_)
Digits(n) == IF n < 10 THEN 1 ELSE 1 + Digits(n \div 10)

\* The length of the mentions "<@id>, <@id>" of a line.
RECURSIVE MentionsLen(_)
MentionsLen(users) ==
    IF users = <<>> THEN 0
    ELSE 3 + Digits(Head(users))
         + (IF Len(users) > 1 THEN 2 ELSE 0) + MentionsLen(Tail(users))

\* scheduler.rs 171-187: the length of the text of a line; the date is written
\* as "%a %Y-%m-%d", 14 characters.
LineLen(count, marked, users) ==
    (IF marked THEN 2 + 17 + 2 ELSE 17) + 1 + Digits(count)
      + (IF users # <<>> THEN 3 + MentionsLen(users) ELSE 0)

\* scheduler.rs 150-190: the lines of the tally
GetResults(s, detailed) ==
    LET kept == Kept(s)
        max == MaxCount(s)
    IN  [i \in 1..Len(kept) |->
           LET users == UsersOn(s, kept[i])
               count == Cardinality(users)
               listed == IF detailed /\ users # {} THEN Sorted(users) ELSE <<>>
           IN  [date |-> kept[i],
                count |-> count,
                marked |-> Marked(max, count),
                users |-> listed,
                len |-> LineLen(count, Marked(max, count), listed)]]

\* ------------------------------------------ show_details: the messages
\* scheduler.rs 248, 249: the limit on a line and on a message
MaxChunk == 2000

\* content.len(): every line of the content is followed by a newline
RECURSIVE ContentLen(_)
ContentLen(content) ==
    IF content = <<>> THEN 0
    ELSE Head(content).len + 1 + ContentLen(Tail(content))

\* scheduler.rs 248: assert!(line.len() < 2000)
LinesFit(lines) == \A i \in DOMAIN lines : lines[i].len < MaxChunk

\* scheduler.rs 245-256: the loop that packs the lines into messages; a
\* content is the sequence of its lines.
RECURSIVE ChunkLoop(_, _, _)
ChunkLoop(lines, msgs, content) ==
    IF lines = <<>> THEN [messages |-> msgs, last_content |-> content]
    ELSE LET line == Head(lines) IN
         IF ContentLen(content) + line.len >= MaxChunk
         THEN ChunkLoop(Tail(lines), Append(msgs, content), <<line>>)
         ELSE ChunkLoop(Tail(lines), msgs, Append(content, line))

Chunks(lines) == ChunkLoop(lines, <<>>, <<>>)

\* The action row update_message puts on the summary message.
SummaryButtons(s) == IF ~s.closed THEN {"response", "details"} ELSE {"details"}

\* a record that leaves the responses out
SerializeNoResponses(s) ==
    [owner |-> s.owner,
     title |-> s.title,
     dates |-> s.dates,
     blackout_dates |-> s.blackout_dates,
     group |-> s.group,
     message |-> s.message,
     responses |-> <<>>,
     closed |-> s.closed]

\* a serialisation that skips the blackout dates
SerializeNoBlackout(s) ==
    [owner |-> s.owner,
     title |-> s.title,
     dates |-> s.dates,
     blackout_dates |-> {},
     group |-> s.group,
     message |-> s.message,
     responses |-> s.responses,
     closed |-> s.closed]

\* What serde_json writes for a Scheduler: every field of the struct.
Serialize(s) ==
    [owner |-> s.owner,
     title |-> s.title,
     dates |-> s.dates,
     blackout_dates |-> s.blackout_dates,
     group |-> s.group,
     message |-> s.message,
     responses |-> s.responses,
     closed |-> s.closed]

\* ----------------------------------------------------------- get_response
\* the "select_all" arm
SelectAll(dates, blackout_dates, resp_type) ==
    {dates[i] : i \in {j \in DOMAIN dates : dates[j] \notin blackout_dates}}

\* a "select" arm that only ever adds the date
SelectToggleAdds(response, dates, index) == response \cup {dates[index + 1]}

\* the "select" arm; index counts from 0
SelectToggle(response, dates, index) ==
    LET date == dates[index + 1]
    IN  IF date \in response THEN response \ {date} ELSE response \cup {date}

\* the "clear_all" arm
ClearAll(response) == {}

\* expiration - Instant::now(): Instant subtraction saturates at zero
SatSub(a, b) == IF a >= b THEN a - b ELSE 0

\* the full timeout at every turn of the loop
WaitForFull(expiration, now_) == RESP_TIMEOUT

\* The duration handed to .timeout() at the top of the loop.
WaitFor(expiration, now_) == SatSub(expiration, now_)

\* create_dm_buttons: the buttons of the session message a user can press.
\* Indexes count from 0.
SelectButtons(dates, blackout_dates, resp_type) ==
    {i \in 0..(Len(dates) - 1) :
        resp_type = "Blackout" \/ dates[i + 1] \notin blackout_dates}

BulkButtons(resp_type) ==
    IF resp_type = "Blackout" THEN {"select_all", "clear_all"} ELSE {}

TooManyDatesAtMax(dates) == Len(dates) >= 2 * MAX_WEEKS

\* scheduler.rs 331-334: panic!("Too many dates!")
TooManyDates(dates) == Len(dates) > 2 * MAX_WEEKS


\* -------------------------------------------------------------------- state
VARIABLES
    schedulers,   \* Handler.schedulers: message id -> Scheduler
    files,        \* the data directory: message id -> what <id>.json holds
    readers,      \* tasks holding a read guard of Handler.schedulers
    writers,      \* tasks holding the write guard of Handler.schedulers
    waiters,      \* the lock's FIFO queue of <<task, mode>>
    tasks,        \* the event handlers: position and locals of each
    messages,     \* the summary messages that exist on the platform
    nextId,       \* the id the platform gives the next message
    shown,        \* message id -> buttons on the summary message
    embed,        \* message id -> "Results" field of the summary message
    blackoutBtn,  \* message id -> users holding an "Add blackout dates" button
    closeYes,     \* message id -> users holding a "Finalize? Yes" button
    now,          \* the clock (seconds)
    io            \* the file operations of the last step, in order

vars == <<schedulers, files, readers, writers, waiters, tasks, messages, nextId,
          shown, embed, blackoutBtn, closeYes, now, io>>

NoSched == [absent |-> TRUE]

IdleTask ==
    [kind |-> "idle", pc |-> "idle", id |-> 0, user |-> 0, resp_type |-> "-",
     response |-> {}, dates |-> <<>>, blackout_dates |-> {},
     expiration |-> 0, armed |-> 0, wait |-> 0, button_id |-> "-", data |-> 0,
     result |-> "-", sched |-> NoSched,
     title |-> 0, today |-> 0, weeks |-> 0, skip |-> NoSkip, days |-> {},
     results |-> <<>>, chunks |-> <<>>, last_content |-> <<>>,
     on_closed |-> FALSE]   \* history: the poll was closed when the event came

\* ----------------------------------------------- tokio::sync::RwLock (FIFO)
Lock == [rd |-> readers, wr |-> writers, q |-> waiters]

SetLock(L) == readers' = L.rd /\ writers' = L.wr /\ waiters' = L.q

\* CanGrant with read guards granted beside a write guard
CanGrantReadAlways(L, mode) ==
    IF mode = "R" THEN TRUE ELSE L.wr = {} /\ L.rd = {}

\* a read guard is compatible with other read guards, a write guard with none
CanGrant(L, mode) ==
    IF mode = "R" THEN L.wr = {} ELSE L.wr = {} /\ L.rd = {}

Grant(L, t, mode) ==
    IF mode = "R" THEN [L EXCEPT !.rd = L.rd \cup {t}]
    ELSE [L EXCEPT !.wr = L.wr \cup {t}]

\* read().await / write().await: granted at once when nobody is queued and the
\* guard is compatible, queued behind the earlier requests otherwise
Acquire(L, t, mode) ==
    IF L.q = <<>> /\ CanGrant(L, mode)
    THEN Grant(L, t, mode)
    ELSE [L EXCEPT !.q = Append(L.q, <<t, mode>>)]

\* a release that wakes nobody
DrainNobody(L) == L

\* a release hands the lock to the queued requests, in order
RECURSIVE Drain(_)
Drain(L) ==
    IF L.q = <<>> THEN L
    ELSE LET h == Head(L.q)
         IN  IF CanGrant(L, h[2])
             THEN Drain(Grant([L EXCEPT !.q = Tail(L.q)], h[1], h[2]))
             ELSE L

\* a release that leaves the queued requests where they are
ReleaseKeepsQueue(L, t) == [L EXCEPT !.rd = L.rd \ {t}, !.wr = L.wr \ {t}]

\* dropping a guard: the holder leaves and the queue is served
Release(L, t) ==
    Drain([L EXCEPT !.rd = L.rd \ {t}, !.wr = L.wr \ {t}])

HoldsRead(t) == t \in readers
HoldsWrite(t) == t \in writers
Queued(t) == \E i \in DOMAIN waiters : waiters[i][1] = t

\* a failed lookup that keeps its guard
TryMapErrKeeps(L, t) == L

\* get_scheduler / get_mut_scheduler on an id the map does not hold: try_map
\* gives the guard back in its Err and .ok() drops it, so the lock is released
\* before the caller's expect / unwrap panics.
TryMapErr(L, t) == Release(L, t)

\* ------------------------------------------------------------ persistence
\* write_file
WriteFile(f, id, scheduler) == MapInsert(f, id, Serialize(scheduler))
\* delete_file
DeleteFile(f, id) == MapRemove(f, id)

\* a drop that leaves the file as it was
DropWrapperFilesStale(f, id, scheduler) == f

\* Drop for ScheduleWrapper: one write_file of the poll as it is now
DropWrapperFiles(f, id, scheduler) == WriteFile(f, id, scheduler)
DropWrapperIo(id) == << <<"write", id>> >>

\* read_file: what Handler::new loads from a record
Deserialize(r) ==
    [owner |-> r.owner,
     title |-> r.title,
     dates |-> r.dates,
     blackout_dates |-> r.blackout_dates,
     group |-> r.group,
     message |-> r.message,
     responses |-> r.responses,
     closed |-> r.closed]

\* ------------------------------------------------------------------- Init
Thursday == 3
ShortTitle == 5
LongTitle == 257

\* The data directory at start-up: one poll left by an earlier run, whose
\* summary message still carries the buttons that run rendered.
StoredPoll(days) ==
    SchedulerNew(1, NoGroup, 1, Thursday, 1, NoSkip, ShortTitle, days)

LegacyButtons == {"response", "details", "close"}

\* Handler::new with one record in the data directory.
InitData(poll) ==
    /\ files = MapInsert(<<>>, 1, Serialize(poll))
    /\ schedulers = [id \in DOMAIN files |-> Deserialize(files[id])]
    /\ writers = {}
    /\ waiters = <<>>
    /\ messages = {1}
    /\ nextId = 2
    /\ shown = [id \in Ids |-> IF id = 1 THEN LegacyButtons ELSE {}]
    /\ embed = [id \in Ids |-> IF id = 1 THEN GetResults(poll, FALSE) ELSE <<>>]
    /\ blackoutBtn = [id \in Ids |-> {}]
    /\ closeYes = [id \in Ids |-> {}]
    /\ now = 0
    /\ io = <<>>

InitWith(days) ==
    /\ InitData(StoredPoll(days))
    /\ readers = {}
    /\ tasks = [t \in Tasks |-> IdleTask]

Init == InitWith({Sat})

\* ------------------------------------------------------------ task helpers
\* Events are numbered in the order of their arrival.
FreeTask(t) ==
    /\ tasks[t].pc = "idle"
    /\ \A x \in Tasks : x < t => tasks[x].pc # "idle"

At(t, kind, pc) == tasks[t].kind = kind /\ tasks[t].pc = pc

SetTask(t, r) == tasks' = [tasks EXCEPT ![t] = r]

Registered(id) == id \in DOMAIN schedulers

\* Scheduler::can_respond
CanRespondAnyone(s, user) == TRUE

CanRespond(s, user) ==
    IF s.group # NoGroup THEN HasRole(user, s.group) ELSE TRUE


\* What is left of a task's locals when its handler has returned or panicked.
Ended(r, pc, result) ==
    [IdleTask EXCEPT !.kind = r.kind, !.pc = pc, !.result = result]

\* update_message: the edit of the summary message, which may fail (the
\* failure is logged); it fails when the message is gone.
EditOutcomes(id) == IF id \in messages THEN {TRUE, FALSE} ELSE {FALSE}

UpdateMessage(sh, s, edited) ==
    IF edited THEN [sh EXCEPT ![s.message] = SummaryButtons(s)] ELSE sh

\* update_message: the "Results" field of the embed, get_results(false)
UpdateEmbed(em, s, edited) ==
    IF edited THEN [em EXCEPT ![s.message] = GetResults(s, FALSE)] ELSE em

\* The poll an event refers to was already closed when the event came.
AlreadyClosed(id) == Registered(id) /\ schedulers[id].closed

\* ------------------------------------------------- handle_get_response
\* A user presses "Add response" on a summary message.
ClickResponse(t, user, id) ==
    /\ FreeTask(t)
    /\ id \in messages
    /\ "response" \in shown[id]
    /\ SetTask(t, [IdleTask EXCEPT !.kind = "respond", !.pc = "get_scheduler",
                                   !.id = id, !.user = user,
                                   !.resp_type = "Normal",
                                   !.on_closed = AlreadyClosed(id)])
    /\ SetLock(Acquire(Lock, t, "R"))
    /\ io' = <<>>
    /\ UNCHANGED <<schedulers, files, messages, nextId, shown, embed, blackoutBtn,
                   closeYes, now>>

\* The owner presses "Add blackout dates" on a details message.
ClickBlackout(t, user, id) ==
    /\ FreeTask(t)
    /\ user \in blackoutBtn[id]
    /\ SetTask(t, [IdleTask EXCEPT !.kind = "respond", !.pc = "get_scheduler",
                                   !.id = id, !.user = user,
                                   !.resp_type = "Blackout",
                                   !.on_closed = AlreadyClosed(id)])
    /\ SetLock(Acquire(Lock, t, "R"))
    /\ io' = <<>>
    /\ UNCHANGED <<schedulers, files, messages, nextId, shown, embed, blackoutBtn,
                   closeYes, now>>

\* The seed of the draft.
SeedResponse(s, user, resp_type) ==
    IF resp_type = "Normal"
    THEN IF user \in DOMAIN s.responses THEN s.responses[user] ELSE {}
    ELSE s.blackout_dates

\* the read guard kept across the session
AfterReadKeep(L, t) == L

\* The locks a handler holds when the read part of handle_get_response ends.
AfterRead(L, t) == Release(L, t)

\* main.rs 225-242 and the presentation of the session (scheduler.rs 407-424):
\* under the read guard, look the poll up, check the group, copy the dates, the
\* blackout dates and the seed; drop the guard; present the session.
GetResponseRead(t) ==
    /\ At(t, "respond", "get_scheduler")
    /\ HoldsRead(t)
    /\ LET r == tasks[t] IN
       IF ~Registered(r.id)
       THEN /\ SetTask(t, Ended(r, "panicked", "-"))
            /\ SetLock(TryMapErr(Lock, t))
       ELSE LET s == schedulers[r.id] IN
            IF ~CanRespond(s, r.user)
            THEN /\ SetTask(t, Ended(r, "done", "refused"))
                 /\ SetLock(Release(Lock, t))
            ELSE IF TooManyDates(s.dates)
            THEN /\ SetTask(t, Ended(r, "panicked", "-"))
                 /\ SetLock(Release(Lock, t))
            ELSE /\ SetTask(t, [r EXCEPT
                        !.pc = "await",
                        !.response = SeedResponse(s, r.user, r.resp_type),
                        !.dates = s.dates,
                        !.blackout_dates = s.blackout_dates,
                        !.expiration = now + RESP_TIMEOUT,
                        !.armed = now,
                        !.wait = WaitFor(now + RESP_TIMEOUT, now),
                        !.result = "Presenting"])
                 /\ SetLock(AfterRead(Lock, t))
    /\ io' = <<>>
    /\ UNCHANGED <<schedulers, files, messages, nextId, shown, embed, blackoutBtn,
                   closeYes, now>>

\* The session waits for an interaction until the timer fires.
Awaiting(t) == At(t, "respond", "await")
InTime(t) == now < tasks[t].armed + tasks[t].wait

\* One turn of the loop: the draft after the interaction, then the next wait.
Updated(r, button_id, data, response) ==
    [r EXCEPT !.button_id = button_id,
              !.data = data,
              !.response = response,
              !.armed = now,
              !.wait = WaitFor(r.expiration, now),
              !.result = "Updating"]

SessionSelect(t, index) ==
    /\ Awaiting(t) /\ InTime(t)
    /\ index \in SelectButtons(tasks[t].dates, tasks[t].blackout_dates,
                               tasks[t].resp_type)
    /\ SetTask(t, Updated(tasks[t], "select", index,
                          SelectToggle(tasks[t].response, tasks[t].dates, index)))
    /\ io' = <<>>
    /\ UNCHANGED <<schedulers, files, readers, writers, waiters, messages, nextId,
                   shown, embed, blackoutBtn, closeYes, now>>

SessionSelectAll(t) ==
    /\ Awaiting(t) /\ InTime(t)
    /\ "select_all" \in BulkButtons(tasks[t].resp_type)
    /\ SetTask(t, Updated(tasks[t], "select_all", 0,
                          SelectAll(tasks[t].dates, tasks[t].blackout_dates,
                                    tasks[t].resp_type)))
    /\ io' = <<>>
    /\ UNCHANGED <<schedulers, files, readers, writers, waiters, messages, nextId,
                   shown, embed, blackoutBtn, closeYes, now>>

SessionClearAll(t) ==
    /\ Awaiting(t) /\ InTime(t)
    /\ "clear_all" \in BulkButtons(tasks[t].resp_type)
    /\ SetTask(t, Updated(tasks[t], "clear_all", 0,
                          ClearAll(tasks[t].response)))
    /\ io' = <<>>
    /\ UNCHANGED <<schedulers, files, readers, writers, waiters, messages, nextId,
                   shown, embed, blackoutBtn, closeYes, now>>

\* "submit": get_response returns the draft and the handler asks for the
\* exclusive-write accessor.
SessionSubmit(t) ==
    /\ Awaiting(t) /\ InTime(t)
    /\ SetTask(t, [tasks[t] EXCEPT !.pc = "get_mut_scheduler",
                                   !.button_id = "submit", !.data = 0,
                                   !.result = "Submitted"])
    /\ SetLock(Acquire(Lock, t, "W"))
    /\ io' = <<>>
    /\ UNCHANGED <<schedulers, files, messages, nextId, shown, embed, blackoutBtn,
                   closeYes, now>>

\* The timer fires: get_response returns None and the handler returns.
SessionTimeout(t) ==
    /\ Awaiting(t) /\ ~InTime(t)
    /\ SetTask(t, Ended(tasks[t], "done", "TimedOut"))
    /\ io' = <<>>
    /\ UNCHANGED <<schedulers, files, readers, writers, waiters, messages, nextId,
                   shown, embed, blackoutBtn, closeYes, now>>

\* a commit that files every draft as the user's response
CommitAsResponse(s, user, resp_type, response) ==
    InsertResponse(s, user, response)

\* What the commit of a submitted session does to the poll.
Commit(s, user, resp_type, response) ==
    IF resp_type = "Normal" THEN InsertResponse(s, user, response)
    ELSE ReplaceBlackout(s, response)

\* main.rs 248-257 up to the update_message of add_response / set_blackout.
CommitMutate(t) ==
    /\ At(t, "respond", "get_mut_scheduler")
    /\ HoldsWrite(t)
    /\ LET r == tasks[t] IN
       IF ~Registered(r.id)
       THEN /\ SetTask(t, Ended(r, "panicked", r.result))
            /\ SetLock(TryMapErr(Lock, t))
            /\ UNCHANGED schedulers
       ELSE /\ schedulers' = [schedulers EXCEPT ![r.id] =
                                 Commit(@, r.user, r.resp_type, r.response)]
            /\ SetTask(t, [r EXCEPT !.pc = "update_message"])
            /\ UNCHANGED <<readers, writers, waiters>>
    /\ io' = <<>>
    /\ UNCHANGED <<files, messages, nextId, shown, embed, blackoutBtn, closeYes, now>>

\* The update_message that ends add_response, set_blackout and close, and the
\* drop of the ScheduleWrapper at the end of the handler.
UpdateAndDrop(t) ==
    /\ tasks[t].pc = "update_message"
    /\ HoldsWrite(t)
    /\ LET r == tasks[t] IN
       /\ \E edited \in EditOutcomes(r.id) :
              /\ shown' = UpdateMessage(shown, schedulers[r.id], edited)
              /\ embed' = UpdateEmbed(embed, schedulers[r.id], edited)
       /\ files' = DropWrapperFiles(files, r.id, schedulers[r.id])
       /\ io' = DropWrapperIo(r.id)
       /\ SetTask(t, Ended(r, "done", r.result))
       /\ SetLock(Release(Lock, t))
    /\ UNCHANGED <<schedulers, messages, nextId, blackoutBtn, closeYes, now>>


\* ------------------------------------------------- handle_show_details
\* scheduler.rs 265, 277: component.user.id compared with self.owner
IsOwnerAnyone(s, user) == TRUE

IsOwner(s, user) == user = s.owner

ClickDetails(t, user, id) ==
    /\ FreeTask(t)
    /\ id \in messages
    /\ "details" \in shown[id]
    /\ SetTask(t, [IdleTask EXCEPT !.kind = "details", !.pc = "get_scheduler",
                                   !.id = id, !.user = user])
    /\ SetLock(Acquire(Lock, t, "R"))
    /\ io' = <<>>
    /\ UNCHANGED <<schedulers, files, messages, nextId, shown, embed, blackoutBtn,
                   closeYes, now>>

\* show_details: the detailed lines are packed into follow-up messages (a
\* line of 2000 characters or more fails the assert); the last follow-up
\* carries "Add blackout dates" for the owner.
ShowDetails(t) ==
    /\ At(t, "details", "get_scheduler")
    /\ HoldsRead(t)
    /\ LET r == tasks[t] IN
       IF ~Registered(r.id) \/ ~LinesFit(GetResults(schedulers[r.id], TRUE))
       THEN /\ SetTask(t, Ended(r, "panicked", "-"))
            /\ UNCHANGED blackoutBtn
       ELSE /\ SetTask(t, Ended(r, "done", "served"))
            /\ blackoutBtn' =
                 IF IsOwner(schedulers[r.id], r.user)
                 THEN [blackoutBtn EXCEPT ![r.id] = @ \cup {r.user}]
                 ELSE blackoutBtn
    /\ SetLock(IF Registered(tasks[t].id) THEN Release(Lock, t)
               ELSE TryMapErr(Lock, t))
    /\ io' = <<>>
    /\ UNCHANGED <<schedulers, files, messages, nextId, shown, embed, closeYes, now>>

\* --------------------------------------------------------- handle_close
ClickClose(t, user, id) ==
    /\ FreeTask(t)
    /\ id \in messages
    /\ "close" \in shown[id]
    /\ SetTask(t, [IdleTask EXCEPT !.kind = "close", !.pc = "get_scheduler",
                                   !.id = id, !.user = user])
    /\ SetLock(Acquire(Lock, t, "R"))
    /\ io' = <<>>
    /\ UNCHANGED <<schedulers, files, messages, nextId, shown, embed, blackoutBtn,
                   closeYes, now>>

\* close_prompt: "Only owner can close", or the "Finalize?" prompt.
ClosePrompt(t) ==
    /\ At(t, "close", "get_scheduler")
    /\ HoldsRead(t)
    /\ LET r == tasks[t] IN
       IF ~Registered(r.id)
       THEN /\ SetTask(t, Ended(r, "panicked", "-"))
            /\ UNCHANGED closeYes
       ELSE IF ~IsOwner(schedulers[r.id], r.user)
       THEN /\ SetTask(t, Ended(r, "done", "refused"))
            /\ UNCHANGED closeYes
       ELSE /\ SetTask(t, Ended(r, "done", "prompted"))
            /\ closeYes' = [closeYes EXCEPT ![r.id] = @ \cup {r.user}]
    /\ SetLock(IF Registered(tasks[t].id) THEN Release(Lock, t)
               ELSE TryMapErr(Lock, t))
    /\ io' = <<>>
    /\ UNCHANGED <<schedulers, files, messages, nextId, shown, embed, blackoutBtn, now>>

\* ----------------------------------------------------- handle_close_yes
ClickCloseYes(t, user, id) ==
    /\ FreeTask(t)
    /\ user \in closeYes[id]
    /\ SetTask(t, [IdleTask EXCEPT !.kind = "close_yes",
                                   !.pc = "get_mut_scheduler",
                                   !.id = id, !.user = user])
    /\ SetLock(Acquire(Lock, t, "W"))
    /\ io' = <<>>
    /\ UNCHANGED <<schedulers, files, messages, nextId, shown, embed, blackoutBtn,
                   closeYes, now>>

\* Scheduler::handle_close under the ScheduleWrapper: the defer and the edit
\* to "Closed!" either succeed, and close() sets the flag, or fail, and the
\* handler panics and the wrapper is dropped by the unwinding.
HandleClose(t) ==
    /\ At(t, "close_yes", "get_mut_scheduler")
    /\ HoldsWrite(t)
    /\ LET r == tasks[t] IN
       IF ~Registered(r.id)
       THEN /\ SetTask(t, Ended(r, "panicked", "-"))
            /\ SetLock(TryMapErr(Lock, t))
            /\ io' = <<>>
            /\ UNCHANGED <<schedulers, files, closeYes>>
       ELSE \E replied \in BOOLEAN :
              IF ~replied
              THEN /\ SetTask(t, Ended(r, "panicked", "-"))
                   /\ files' = DropWrapperFiles(files, r.id, schedulers[r.id])
                   /\ io' = DropWrapperIo(r.id)
                   /\ SetLock(Release(Lock, t))
                   /\ UNCHANGED <<schedulers, closeYes>>
              ELSE /\ schedulers' = [schedulers EXCEPT ![r.id] = SetClosed(@)]
                   /\ closeYes' = [closeYes EXCEPT ![r.id] = @ \ {r.user}]
                   /\ SetTask(t, [r EXCEPT !.pc = "update_message"])
                   /\ io' = <<>>
                   /\ UNCHANGED <<files, readers, writers, waiters>>
    /\ UNCHANGED <<messages, nextId, shown, embed, blackoutBtn, now>>

\* ----------------------------------------------------- create_scheduler
\* The options a /schedule command may carry.
Titles == {ShortTitle, LongTitle}
Groups == {NoGroup, Role}
WeeksOptions == {1}
SkipOptions == {NoSkip}
DaysOptions == {{Sat}}
Todays == {Thursday}

\* main.rs 153-202: validation, the "Please wait..." reply whose message id
\* becomes the poll's id, Scheduler::new.
TitleTooLongAt257(title) == title > MaxTitle + 1

\* main.rs 164: the length check on the description option
TitleTooLong(title) == title > MaxTitle

SlashSchedule(t, user, title, group, today, weeks, skip, days) ==
    /\ FreeTask(t)
    /\ nextId \in Ids
    /\ IF TitleTooLong(title)
       THEN /\ SetTask(t, [IdleTask EXCEPT !.kind = "create", !.pc = "done",
                                           !.user = user, !.title = title,
                                           !.result = "rejected"])
            /\ UNCHANGED <<messages, nextId>>
       ELSE /\ SetTask(t, [IdleTask EXCEPT
                 !.kind = "create", !.pc = "update_message_new",
                 !.id = nextId, !.user = user, !.title = title,
                 !.today = today, !.weeks = weeks, !.skip = skip,
                 !.days = days,
                 !.sched = SchedulerNew(user, group, nextId, today, weeks,
                                        skip, title, days)])
            /\ messages' = messages \cup {nextId}
            /\ nextId' = nextId + 1
    /\ io' = <<>>
    /\ UNCHANGED <<schedulers, files, readers, writers, waiters, shown, embed,
                   blackoutBtn, closeYes, now>>

\* main.rs 203-204: update_message on the new scheduler, then write().await
CreateRender(t) ==
    /\ At(t, "create", "update_message_new")
    /\ \E edited \in EditOutcomes(tasks[t].id) :
           /\ shown' = UpdateMessage(shown, tasks[t].sched, edited)
           /\ embed' = UpdateEmbed(embed, tasks[t].sched, edited)
    /\ SetTask(t, [tasks[t] EXCEPT !.pc = "write"])
    /\ io' = <<>>
    /\ UNCHANGED <<schedulers, files, readers, writers, waiters, messages,
                   nextId, blackoutBtn, closeYes, now>>

\* main.rs 204: the handler resumes after the edit and asks for the write
\* guard
CreateWrite(t) ==
    /\ At(t, "create", "write")
    /\ SetTask(t, [tasks[t] EXCEPT !.pc = "insert"])
    /\ SetLock(Acquire(Lock, t, "W"))
    /\ io' = <<>>
    /\ UNCHANGED <<schedulers, files, messages, nextId, shown, embed,
                   blackoutBtn, closeYes, now>>

\* main.rs 205-206 under the write guard
CreateInsert(t) ==
    /\ At(t, "create", "insert")
    /\ HoldsWrite(t)
    /\ LET r == tasks[t] IN
       /\ files' = WriteFile(files, r.id, r.sched)
       /\ io' = << <<"write", r.id>> >>
       /\ schedulers' = MapInsert(schedulers, r.id, r.sched)
       /\ SetTask(t, Ended(r, "done", "created"))
    /\ SetLock(Release(Lock, t))
    /\ UNCHANGED <<messages, nextId, shown, embed, blackoutBtn, closeYes, now>>

\* ------------------------------------------------------- message_delete
\* A message is deleted on the platform and the notification arrives.
MessageDeleted(t, id) ==
    /\ FreeTask(t)
    /\ id \in messages
    /\ messages' = messages \ {id}
    /\ shown' = [shown EXCEPT ![id] = {}]
    /\ embed' = [embed EXCEPT ![id] = <<>>]
    /\ SetTask(t, [IdleTask EXCEPT !.kind = "delete", !.pc = "remove",
                                   !.id = id])
    /\ SetLock(Acquire(Lock, t, "W"))
    /\ io' = <<>>
    /\ UNCHANGED <<schedulers, files, nextId, blackoutBtn, closeYes, now>>

\* main.rs 389-393 under the write guard
MessageDeleteRemove(t) ==
    /\ At(t, "delete", "remove")
    /\ HoldsWrite(t)
    /\ LET r == tasks[t] IN
       IF Registered(r.id)
       THEN /\ schedulers' = MapRemove(schedulers, r.id)
            /\ files' = DeleteFile(files, r.id)
            /\ io' = << <<"delete", r.id>> >>
            /\ SetTask(t, Ended(r, "done", "removed"))
       ELSE /\ io' = <<>>
            /\ SetTask(t, Ended(r, "done", "-"))
            /\ UNCHANGED <<schedulers, files>>
    /\ SetLock(Release(Lock, t))
    /\ UNCHANGED <<messages, nextId, shown, embed, blackoutBtn, closeYes, now>>

\* ---------------------------------------------------------------- clock
\* Time passes; only a session that waits for its user reads the clock.
Tick ==
    /\ \E t \in Tasks : Awaiting(t) /\ InTime(t)
    /\ now' = now + TickLen
    /\ io' = <<>>
    /\ UNCHANGED <<schedulers, files, readers, writers, waiters, tasks, messages,
                   nextId, shown, embed, blackoutBtn, closeYes>>

\* ----------------------------------------------------------------- Next
Next ==
    \/ \E t \in Tasks, user \in Users, id \in Ids : ClickResponse(t, user, id)
    \/ \E t \in Tasks, user \in Users, id \in Ids : ClickBlackout(t, user, id)
    \/ \E t \in Tasks, user \in Users, id \in Ids : ClickDetails(t, user, id)
    \/ \E t \in Tasks, user \in Users, id \in Ids : ClickClose(t, user, id)
    \/ \E t \in Tasks, user \in Users, id \in Ids : ClickCloseYes(t, user, id)
    \/ \E t \in Tasks, user \in Users, title \in Titles, group \in Groups,
          today \in Todays, weeks \in WeeksOptions, skip \in SkipOptions,
          days \in DaysOptions :
          SlashSchedule(t, user, title, group, today, weeks, skip, days)
    \/ \E t \in Tasks, id \in Ids : MessageDeleted(t, id)
    \/ \E t \in Tasks : GetResponseRead(t)
    \/ \E t \in Tasks, index \in 0..(2 * MAX_WEEKS - 1) : SessionSelect(t, index)
    \/ \E t \in Tasks : SessionSelectAll(t)
    \/ \E t \in Tasks : SessionClearAll(t)
    \/ \E t \in Tasks : SessionSubmit(t)
    \/ \E t \in Tasks : CommitMutate(t)
    \/ \E t \in Tasks : UpdateAndDrop(t)
    \/ \E t \in Tasks : ShowDetails(t)
    \/ \E t \in Tasks : ClosePrompt(t)
    \/ \E t \in Tasks : HandleClose(t)
    \/ \E t \in Tasks : CreateRender(t)
    \/ \E t \in Tasks : CreateWrite(t)
    \/ \E t \in Tasks : CreateInsert(t)
    \/ \E t \in Tasks : MessageDeleteRemove(t)

\* The registry and its handlers; sessions are followed up to their commit,
\* the clock stands still.
Spec == Init /\ [][Next]_vars

\* One stored poll over a Saturday and a Sunday, its sessions and the clock.
InitSession == InitWith({Sat, Sun})

NextSession ==
    \/ \E t \in SessionTasks, user \in Users, id \in Ids : ClickResponse(t, user, id)
    \/ \E t \in SessionTasks, user \in Users, id \in Ids : ClickBlackout(t, user, id)
    \/ \E t \in SessionTasks, user \in Users, id \in Ids : ClickDetails(t, user, id)
    \/ \E t \in SessionTasks : GetResponseRead(t)
    \/ \E t \in SessionTasks, index \in 0..(2 * MAX_WEEKS - 1) : SessionSelect(t, index)
    \/ \E t \in SessionTasks : SessionSelectAll(t)
    \/ \E t \in SessionTasks : SessionClearAll(t)
    \/ \E t \in SessionTasks : SessionSubmit(t)
    \/ \E t \in SessionTasks : SessionTimeout(t)
    \/ \E t \in SessionTasks : CommitMutate(t)
    \/ \E t \in SessionTasks : UpdateAndDrop(t)
    \/ \E t \in SessionTasks : ShowDetails(t)
    \/ Tick

SpecSession == InitSession /\ [][NextSession]_vars

\* Time passes and a timer that is due fires.
SpecSessionFair ==
    /\ SpecSession
    /\ WF_vars(Tick)
    /\ \A t \in SessionTasks : WF_vars(SessionTimeout(t))

\* ----------------------------------------------- the creation command alone
\* An empty data directory; one /schedule command with any options
\* Scheduler::new accepts, on any day of the week; then users ask for a
\* session on the new poll.
Weekdays == 0..6
AllTodays == Weekdays
AllWeeks == 1..MAX_WEEKS
AllSkips == {NoSkip} \cup 0..MaxSkip
AllDays == (SUBSET Weekdays) \ {{}}
CreateTasks == {1}

InitWindow ==
    /\ files = <<>>
    /\ schedulers = <<>>
    /\ readers = {}
    /\ writers = {}
    /\ waiters = <<>>
    /\ tasks = [t \in Tasks |-> IdleTask]
    /\ messages = {}
    /\ nextId = 1
    /\ shown = [id \in Ids |-> {}]
    /\ embed = [id \in Ids |-> <<>>]
    /\ blackoutBtn = [id \in Ids |-> {}]
    /\ closeYes = [id \in Ids |-> {}]
    /\ now = 0
    /\ io = <<>>

\* The command with any options; the guard comes first so that the options
\* are only enumerated for a free task.
SlashScheduleAny(t) ==
    /\ FreeTask(t)
    /\ \E today \in AllTodays, weeks \in AllWeeks, skip \in AllSkips,
          days \in AllDays :
          SlashSchedule(t, 1, ShortTitle, NoGroup, today, weeks, skip, days)

NextWindow ==
    \/ \E t \in CreateTasks : SlashScheduleAny(t)
    \/ \E t \in CreateTasks : CreateRender(t)
    \/ \E t \in CreateTasks : CreateWrite(t)
    \/ \E t \in CreateTasks : CreateInsert(t)
    \/ \E t \in SessionTasks, id \in Ids : ClickResponse(t, 1, id)
    \/ \E t \in SessionTasks : GetResponseRead(t)

SpecWindow == InitWindow /\ [][NextWindow]_vars


\* ------------------------------------------------- ready with --refresh
\* main.rs 375-376: the run was started with --refresh; ready takes the read
\* guard of the registry.
Ready(t) ==
    /\ FreeTask(t)
    /\ SetTask(t, [IdleTask EXCEPT !.kind = "ready", !.pc = "refresh"])
    /\ SetLock(Acquire(Lock, t, "R"))
    /\ io' = <<>>
    /\ UNCHANGED <<schedulers, files, messages, nextId, shown, embed,
                   blackoutBtn, closeYes, now>>

\* main.rs 376-378: update_message of every scheduler, under the read guard.
RefreshRender(t) ==
    /\ At(t, "ready", "refresh")
    /\ HoldsRead(t)
    /\ \E edited \in [DOMAIN schedulers -> BOOLEAN] :
          /\ \A id \in DOMAIN schedulers : edited[id] \in EditOutcomes(id)
          /\ shown' = [id \in Ids |->
                         IF id \in DOMAIN schedulers /\ edited[id]
                         THEN SummaryButtons(schedulers[id]) ELSE shown[id]]
          /\ embed' = [id \in Ids |->
                         IF id \in DOMAIN schedulers /\ edited[id]
                         THEN GetResults(schedulers[id], FALSE) ELSE embed[id]]
    /\ SetTask(t, Ended(tasks[t], "done", "refreshed"))
    /\ SetLock(Release(Lock, t))
    /\ io' = <<>>
    /\ UNCHANGED <<schedulers, files, messages, nextId, blackoutBtn, closeYes,
                   now>>

\* The records a data directory may hold for the stored poll: any blackout
\* set, dates outside the window included, and any responses.
OutsideWindow == Sat + 7
TallyPolls ==
    {[StoredPoll({Sat, Sun}) EXCEPT !.blackout_dates = b, !.responses = r] :
        b \in SUBSET {Sat, Sun, OutsideWindow},
        r \in UNION {[D -> SUBSET {Sat, Sun}] : D \in SUBSET Users}}

InitTally ==
    /\ \E poll \in TallyPolls : InitData(poll)
    /\ readers = {}
    /\ tasks = [t \in Tasks |-> IdleTask]

NextTally ==
    \/ \E t \in SessionTasks : Ready(t)
    \/ \E t \in SessionTasks : RefreshRender(t)
    \/ \E t \in SessionTasks, user \in Users, id \in Ids : ClickDetails(t, user, id)
    \/ \E t \in SessionTasks : ShowDetails(t)

SpecTally == InitTally /\ [][NextTally]_vars


\* Sessions on a stored poll that already has responses and blackout dates:
\* the respond and blackout sessions up to their commit, the clock standing
\* still.
NextStored ==
    \/ \E t \in SessionTasks, user \in Users, id \in Ids : ClickResponse(t, user, id)
    \/ \E t \in SessionTasks, user \in Users, id \in Ids : ClickDetails(t, user, id)
    \/ \E t \in SessionTasks : ShowDetails(t)
    \/ \E t \in SessionTasks, user \in Users, id \in Ids : ClickBlackout(t, user, id)
    \/ \E t \in SessionTasks : GetResponseRead(t)
    \/ \E t \in SessionTasks, index \in 0..(2 * MAX_WEEKS - 1) : SessionSelect(t, index)
    \/ \E t \in SessionTasks : SessionSelectAll(t)
    \/ \E t \in SessionTasks : SessionClearAll(t)
    \/ \E t \in SessionTasks : SessionSubmit(t)
    \/ \E t \in SessionTasks : CommitMutate(t)
    \/ \E t \in SessionTasks : UpdateAndDrop(t)

SpecStored == InitTally /\ [][NextStored]_vars

\* ------------------------------------------- the packing of show_details
\* show_details has its lines (scheduler.rs 244) and packs them; a line is
\* given by its length.
ChunkLens == {1, 998, 999, 1000, 1998, 1999}
RECURSIVE LinesUpTo(_)
LinesUpTo(n) ==
    IF n = 0 THEN {<<>>}
    ELSE LinesUpTo(n - 1) \cup
         {Append(ls, [len |-> l]) : ls \in LinesUpTo(n - 1), l \in ChunkLens}

InitChunks ==
    /\ InitData(StoredPoll({Sat}))
    /\ readers = {1}
    /\ \E lines \in LinesUpTo(MaxLines) :
          tasks = [t \in Tasks |->
                     IF t = 1
                     THEN [IdleTask EXCEPT !.kind = "details",
                                           !.pc = "show_details",
                                           !.id = 1, !.user = 1,
                                           !.results = lines]
                     ELSE IdleTask]

\* scheduler.rs 245-256
PackLines(t) ==
    /\ At(t, "details", "show_details")
    /\ LET r == tasks[t] IN
       IF ~LinesFit(r.results)
       THEN /\ SetTask(t, Ended(r, "panicked", "-"))
            /\ SetLock(Release(Lock, t))
       ELSE /\ SetTask(t, [r EXCEPT !.pc = "followups",
                                    !.chunks = Chunks(r.results).messages,
                                    !.last_content = Chunks(r.results).last_content])
            /\ UNCHANGED <<readers, writers, waiters>>
    /\ io' = <<>>
    /\ UNCHANGED <<schedulers, files, messages, nextId, shown, embed,
                   blackoutBtn, closeYes, now>>

NextChunks == \E t \in SessionTasks : PackLines(t)

SpecChunks == InitChunks /\ [][NextChunks]_vars


\* ======================================================== the claims
\* The accessors of a poll id that are live: the guards held by handlers that
\* asked for that id.
LiveReaders(id) == {t \in readers : tasks[t].id = id}
LiveWriters(id) == {t \in writers : tasks[t].id = id}
WaitingFor(id) ==
    {t \in Tasks : Queued(t) /\ tasks[t].id = id}

\* C1: registry mutual exclusion.  In every reachable state, for each poll id,
\* at most one exclusive-write accessor is live, and no read accessor for the
\* id is live while an exclusive-write accessor for it is; several read
\* accessors may be live together.
C1_MutualExclusion ==
    \A id \in Ids :
        /\ Cardinality(LiveWriters(id)) <= 1
        /\ LiveWriters(id) # {} => LiveReaders(id) = {}

\* C1 witness: an exclusive-write accessor of a poll is live while a read
\* request and a write request for the same poll wait for it.
C1_Witness ==
    \E id \in Ids :
        /\ Registered(id)
        /\ LiveWriters(id) # {}
        /\ \E i \in DOMAIN waiters :
              waiters[i][2] = "R" /\ tasks[waiters[i][1]].id = id
        /\ \E i \in DOMAIN waiters :
              waiters[i][2] = "W" /\ tasks[waiters[i][1]].id = id


\* The record a poll has on disk, field by field.
RecordOf(s) ==
    [owner |-> s.owner, title |-> s.title, dates |-> s.dates,
     blackout_dates |-> s.blackout_dates, group |-> s.group,
     message |-> s.message, responses |-> s.responses, closed |-> s.closed]

\* A ScheduleWrapper is live: get_mut_scheduler was granted for a registered id.
WrapperLive(t) ==
    /\ t \in writers
    /\ tasks[t].kind \in {"respond", "close_yes"}
    /\ Registered(tasks[t].id)

WritesOf(ops, id) == {i \in DOMAIN ops : ops[i] = <<"write", id>>}

\* C2: commit-on-release.  Every exclusive-write accessor ends with exactly one
\* write of its poll's record, made with the poll's state as of the release,
\* in the step that releases the lock and so before any other accessor for the
\* id begins; no write is made while the accessor is still live.  This holds
\* when the handler returns and when it panics under the accessor.
C2_CommitOnRelease ==
    [][\A t \in Tasks, id \in Ids :
         WrapperLive(t) /\ tasks[t].id = id =>
           IF t \in writers'
           THEN /\ WritesOf(io', id) = {}
                /\ files' = files
                /\ readers' = {} /\ writers' = {t}
           ELSE /\ Cardinality(WritesOf(io', id)) = 1
                /\ id \in DOMAIN schedulers'
                /\ files'[id] = RecordOf(schedulers'[id])]_vars

\* C2 witness: handle_close panicked under its accessor and the record was
\* written by the drop; and a commit that changed the poll was written.
C2_Witness ==
    /\ \E t \in Tasks : tasks[t].kind = "close_yes" /\ tasks[t].pc = "panicked"
    /\ WritesOf(io, 1) # {}
    /\ writers = {}

\* C3: write-through consistency.  For every registered poll id with no
\* exclusive-write accessor live, the persisted record equals the poll's
\* in-memory state.
C3_WriteThrough ==
    \A id \in DOMAIN schedulers :
        LiveWriters(id) = {} =>
            /\ id \in DOMAIN files
            /\ files[id] = RecordOf(schedulers[id])

\* C3 witness: a created poll and a poll with a committed response, a
\* committed blackout set and the closed flag, all on disk, nobody writing.
C3_Witness ==
    /\ writers = {}
    /\ \E id \in DOMAIN schedulers :
          /\ schedulers[id].blackout_dates # {}
          /\ files[id].blackout_dates = schedulers[id].blackout_dates

\* A queued request of get_scheduler or get_mut_scheduler.
AccessorRequest(t) == tasks[t].pc \in {"get_scheduler", "get_mut_scheduler"}

C5_SessionHoldsNoAccessor ==
    \A t \in Tasks :
        Awaiting(t) =>
            /\ tasks[t].result \in {"Presenting", "Updating"}
            /\ t \notin readers /\ t \notin writers /\ ~Queued(t)

\* C5 witness: while a session waits for its user, another handler holds the
\* exclusive-write accessor of the same poll and a third holds none but reads
\* it afterwards.
C5_Witness ==
    \E t \in Tasks, w \in Tasks :
        /\ Awaiting(t)
        /\ WrapperLive(w)
        /\ tasks[w].id = tasks[t].id


\* The entries of a responses map other than one user's.
OtherResponses(m, user) == [u \in DOMAIN m \ {user} |-> m[u]]

\* C6: session commit law.  A session that reached Submitted keeps its draft
\* until its commit, and the commit, made under the exclusive-write accessor,
\* puts exactly that draft into the poll: as responses[user] for Normal, as
\* blackout_dates for Blackout, nothing else changed; the handler's last step
\* leaves the same on disk.  Only such a commit changes a poll or a record; a
\* session that reaches TimedOut changes neither.
C6_SessionCommitLaw ==
    [][/\ \A t \in Tasks, id \in Ids, u \in Users :
            /\ tasks[t].result = "Submitted"
            /\ tasks[t].id = id /\ tasks[t].user = u
            /\ Registered(id)
            => LET draft == tasks[t].response
                   old == schedulers[id]
               IN
               /\ tasks'[t].pc # "done" => tasks'[t].response = draft
               /\ tasks[t].pc = "get_mut_scheduler"
                  /\ tasks'[t].pc = "update_message"
                  => /\ t \in writers
                     /\ IF tasks[t].resp_type = "Normal"
                        THEN /\ u \in DOMAIN schedulers'[id].responses
                             /\ schedulers'[id].responses[u] = draft
                             /\ OtherResponses(schedulers'[id].responses, u)
                                  = OtherResponses(old.responses, u)
                             /\ schedulers'[id].blackout_dates
                                  = old.blackout_dates
                        ELSE /\ schedulers'[id].blackout_dates = draft
                             /\ schedulers'[id].responses = old.responses
                     /\ schedulers'[id].dates = old.dates
                     /\ schedulers'[id].closed = old.closed
                     /\ schedulers'[id].owner = old.owner
               /\ tasks[t].pc = "update_message" /\ tasks'[t].pc = "done"
                  => /\ schedulers' = schedulers
                     /\ files'[id] = RecordOf(old)
       /\ \A t \in Tasks :
            Awaiting(t) /\ tasks'[t].result = "TimedOut"
            => schedulers' = schedulers /\ files' = files
       /\ schedulers' # schedulers \/ files' # files
            => \E t \in writers : tasks[t].result = "Submitted"]_vars

\* C6 witness: one session has committed a non-empty draft, which is in the
\* poll and on disk, and another session has timed out.
C6_Witness ==
    /\ \E t \in Tasks : tasks[t].result = "Submitted" /\ tasks[t].pc = "done"
    /\ \E t \in Tasks : tasks[t].result = "TimedOut"
    /\ \E u \in DOMAIN schedulers[1].responses :
          /\ schedulers[1].responses[u] # {}
          /\ files[1].responses[u] = schedulers[1].responses[u]

\* C7: the session deadline is one absolute instant, 14 minutes after the
\* presentation.  The instant is fixed when the session is presented and never
\* moves; every wait is armed with the time that remains until it; no
\* interaction is taken at or after it, the session then times out; and every
\* session that waits ends in Submitted or TimedOut.
C7_AbsoluteDeadline ==
    /\ [][\A t \in Tasks :
            /\ ~Awaiting(t) /\ Awaiting(t)'
               => tasks'[t].expiration = now + 14 * 60
            /\ Awaiting(t) /\ Awaiting(t)'
               => tasks'[t].expiration = tasks[t].expiration
            /\ Awaiting(t)'
               => tasks'[t].armed + tasks'[t].wait = tasks'[t].expiration
            /\ Awaiting(t) /\ tasks'[t] # tasks[t]
               => IF now < tasks[t].expiration
                  THEN tasks'[t].result \in {"Updating", "Submitted"}
                  ELSE tasks'[t].result = "TimedOut"]_vars
    /\ \A t \in SessionTasks :
          Awaiting(t) ~> tasks[t].result \in {"Submitted", "TimedOut"}

\* C7 witness: a session that was re-armed with less than the full timeout
\* after an interaction has reached its deadline.
C7_Witness ==
    \E t \in Tasks :
        /\ Awaiting(t)
        /\ tasks[t].result = "Updating"
        /\ tasks[t].wait < RESP_TIMEOUT
        /\ now >= tasks[t].expiration

\* C8: select_all sets the draft by the response kind: all candidate dates
\* minus the blackout dates in a Normal session, all candidate dates in a
\* Blackout session, whatever the blackout set.
C8_SelectAllByKind ==
    [][\A t \in Tasks :
          Awaiting(t) /\ Awaiting(t)' /\ tasks'[t].button_id = "select_all"
          /\ tasks'[t] # tasks[t]
          => tasks'[t].response =
                IF tasks[t].resp_type = "Normal"
                THEN Range(tasks[t].dates) \ tasks[t].blackout_dates
                ELSE Range(tasks[t].dates)]_vars

\* C9: a closed poll is read-only: once closed is true, the poll's responses
\* and blackout set never change again.
C9_ClosedIsReadOnly ==
    [][\A id \in Ids :
          /\ Registered(id)
          /\ schedulers[id].closed
          /\ id \in DOMAIN schedulers'
          => /\ schedulers'[id].responses = schedulers[id].responses
             /\ schedulers'[id].blackout_dates = schedulers[id].blackout_dates]_vars

\* C10: after a poll is closed, an attempt to start a Response Session on it
\* is rejected: the handler of a respond or blackout event that came when the
\* poll was already closed presents no session.
C10_NoSessionOnClosedPoll ==
    [][\A t \in Tasks :
          /\ At(t, "respond", "get_scheduler")
          /\ tasks[t].on_closed
          => ~Awaiting(t)']_vars

\* C11: only the owner may close a poll.  closed turns from false to true only
\* in a step of a confirmed close (close_yes) made by the poll's owner under
\* the write accessor, and a close attempt by another user is refused and
\* changes neither the polls, nor the records, nor who may confirm.
C11_OnlyOwnerCloses ==
    [][/\ \A id \in Ids :
            /\ Registered(id) /\ ~schedulers[id].closed
            /\ id \in DOMAIN schedulers' /\ schedulers'[id].closed
            => \E t \in writers :
                  /\ tasks[t].kind = "close_yes"
                  /\ tasks[t].id = id
                  /\ tasks[t].user = schedulers[id].owner
       /\ \A t \in Tasks, id \in Ids :
            /\ At(t, "close", "get_scheduler")
            /\ tasks[t].id = id /\ Registered(id)
            /\ tasks[t].user # schedulers[id].owner
            /\ tasks'[t] # tasks[t]
            => /\ tasks'[t].result = "refused"
               /\ schedulers' = schedulers
               /\ files' = files
               /\ closeYes' = closeYes
               /\ io' = <<>>]_vars

\* C11 witness: another user's close attempt was refused, and the owner's
\* confirmed close has closed the poll, in memory and on disk.
C11_Witness ==
    /\ \E t \in Tasks : tasks[t].kind = "close" /\ tasks[t].result = "refused"
    /\ \E t \in Tasks : tasks[t].kind = "close_yes" /\ tasks[t].pc = "done"
    /\ Registered(1)
    /\ schedulers[1].closed
    /\ files[1].closed

\* C12: on a poll restricted to a group, a user who is not a member never
\* has an entry in responses, and the user's attempt to start a session is
\* refused before a session exists, with no change of a poll or a record.
C12_GroupOnly ==
    /\ [](\A id \in Ids :
            Registered(id) /\ schedulers[id].group # NoGroup
            => \A u \in DOMAIN schedulers[id].responses :
                  HasRole(u, schedulers[id].group))
    /\ [][\A t \in Tasks, id \in Ids :
            /\ At(t, "respond", "get_scheduler")
            /\ tasks[t].id = id /\ Registered(id)
            /\ schedulers[id].group # NoGroup
            /\ ~HasRole(tasks[t].user, schedulers[id].group)
            /\ tasks'[t] # tasks[t]
            => /\ tasks'[t].pc = "done" /\ tasks'[t].result = "refused"
               /\ schedulers' = schedulers
               /\ files' = files
               /\ io' = <<>>]_vars

\* C12 witness: on a poll restricted to the role, the attempt of a user
\* without the role was refused and a member's response is recorded.
C12_Witness ==
    /\ \E t \in Tasks : tasks[t].kind = "respond" /\ tasks[t].result = "refused"
    /\ \E id \in Ids :
          /\ Registered(id)
          /\ schedulers[id].group = Role
          /\ DOMAIN schedulers[id].responses # {}

\* C13: add_response sets responses[u] to the draft and changes no other
\* entry and no other field; an entry changes only in the commit of a session
\* of its user, to that session's draft, so it always is the draft committed
\* last; the same draft committed again leaves the poll unchanged.
C13_RecordResponse ==
    [][\A id \in Ids :
          Registered(id) /\ id \in DOMAIN schedulers'
          => LET old == schedulers[id].responses
                 new == schedulers'[id].responses
             IN
             /\ \A t \in Tasks :
                   /\ At(t, "respond", "get_mut_scheduler")
                   /\ tasks[t].resp_type = "Normal"
                   /\ tasks[t].id = id
                   /\ tasks'[t].pc = "update_message"
                   => LET u == tasks[t].user
                          r == tasks[t].response
                      IN
                      /\ DOMAIN new = DOMAIN old \cup {u}
                      /\ new[u] = r
                      /\ \A v \in DOMAIN old \ {u} : new[v] = old[v]
                      /\ schedulers'[id] = [schedulers[id] EXCEPT !.responses = new]
                      /\ (u \in DOMAIN old /\ old[u] = r)
                           => schedulers' = schedulers
             /\ \A u \in Users :
                   \/ (u \in DOMAIN old /\ u \in DOMAIN new /\ new[u] = old[u])
                   \/ (u \notin DOMAIN old /\ u \notin DOMAIN new)
                   \/ \E t \in writers :
                         /\ At(t, "respond", "get_mut_scheduler")
                         /\ tasks[t].resp_type = "Normal"
                         /\ tasks[t].id = id /\ tasks[t].user = u
                         /\ u \in DOMAIN new
                         /\ new[u] = tasks[t].response]_vars

\* C13 witness: a session of a user has just overwritten the user's earlier
\* entry (the record on disk still holds the earlier one) while the entry of
\* the other user, committed in between or before, is retained.
C13_Witness ==
    \E t \in Tasks, v \in Users :
        /\ At(t, "respond", "update_message")
        /\ tasks[t].resp_type = "Normal"
        /\ tasks[t].id = 1
        /\ Registered(1)
        /\ v # tasks[t].user
        /\ tasks[t].user \in DOMAIN files[1].responses
        /\ files[1].responses[tasks[t].user] # tasks[t].response
        /\ schedulers[1].responses[tasks[t].user] = tasks[t].response
        /\ v \in DOMAIN schedulers[1].responses
        /\ schedulers[1].responses[v] = {Sat}

\* C14: closed is monotonic: a poll that is closed stays closed as long as it
\* is registered, and a poll that enters the registry is not closed.
C14_ClosedMonotonic ==
    [][\A id \in Ids :
          /\ (Registered(id) /\ schedulers[id].closed
                 /\ id \in DOMAIN schedulers')
              => schedulers'[id].closed
          /\ (~Registered(id) /\ id \in DOMAIN schedulers')
              => ~schedulers'[id].closed]_vars

\* C14 witness: a poll was closed, a session opened before the close has
\* committed into it afterwards, and it is still closed.
C14_Witness ==
    /\ Registered(1)
    /\ schedulers[1].closed
    /\ DOMAIN schedulers[1].responses # {}
    /\ \E t \in Tasks : tasks[t].kind = "close_yes" /\ tasks[t].pc = "done"

\* C20: a creation command whose title is longer than 256 characters is
\* rejected and changes nothing: no poll enters the registry, no record is
\* written, no message is created, the polls and records stay as they were;
\* and no poll ever carries such a title.
C20_TitleTooLong ==
    /\ [](\A id \in Ids : Registered(id) => schedulers[id].title <= 256)
    /\ [][\A t \in Tasks :
            /\ tasks[t].kind = "idle"
            /\ tasks'[t].kind = "create"
            /\ tasks'[t].title > 256
            => /\ tasks'[t].pc = "done" /\ tasks'[t].result = "rejected"
               /\ schedulers' = schedulers
               /\ files' = files
               /\ messages' = messages
               /\ shown' = shown
               /\ nextId' = nextId
               /\ io' = <<>>]_vars

\* C20 witness: a command with a long title was rejected and a later command
\* with a short title has created a poll.
C20_Witness ==
    /\ \E t \in Tasks : tasks[t].kind = "create" /\ tasks[t].result = "rejected"
                         /\ tasks[t].title = LongTitle
    /\ \E t \in Tasks : tasks[t].kind = "create" /\ tasks[t].result = "created"
    /\ 2 \in DOMAIN schedulers /\ 2 \in DOMAIN files

\* The first Saturday strictly after today, advanced by S weeks.
WindowStart(today, skip) ==
    (CHOOSE d \in (today + 1)..(today + 7) : d % 7 = 5)
      + 7 * (IF skip = NoSkip THEN 0 ELSE skip)

\* C18: for every today, W in 1..10, S >= 0 (or none) and non-empty filter,
\* the dates of the new poll are exactly the dates d with
\* start <= d < start + 7*W whose weekday is in the filter, strictly
\* ascending, where start is the first Saturday strictly after today advanced
\* by S weeks.
C18_DateWindow ==
    \A t \in Tasks :
        tasks[t].kind = "create" /\ tasks[t].sched # NoSched
        => LET r == tasks[t]
               dates == r.sched.dates
               start == WindowStart(r.today, r.skip)
           IN
           /\ r.weeks \in 1..10 /\ r.days # {}
           /\ Range(dates) = {d \in start..(start + 7 * r.weeks - 1) :
                                 (d % 7) \in r.days}
           /\ \A i, j \in DOMAIN dates : i < j => dates[i] < dates[j]

\* C18 witness: a poll created on a Saturday with one week skipped and every
\* weekday in the filter starts 14 days later and has 70 dates.
C18_Witness ==
    \E t \in Tasks :
        /\ tasks[t].kind = "create" /\ tasks[t].sched # NoSched
        /\ tasks[t].today = Sat /\ tasks[t].skip = 1 /\ tasks[t].weeks = 10
        /\ Len(tasks[t].sched.dates) = 70
        /\ tasks[t].sched.dates[1] = Sat + 14

\* C19: with the filter {Sat, Sun} the window has exactly 2*W dates for every
\* today and W in 1..10 (from a Thursday with W = 1: the coming Saturday and
\* Sunday), so a poll whose filter is within {Sat, Sun} never has more than
\* 2*10 dates and a request for a session on it is never answered by the
\* "Too many dates" panic.
C19_WeekendWindow ==
    /\ [](\A t \in Tasks :
            tasks[t].kind = "create" /\ tasks[t].sched # NoSched
            => LET r == tasks[t]
                   dates == r.sched.dates
               IN
               /\ r.days = {5, 6} => Len(dates) = 2 * r.weeks
               /\ r.days \subseteq {5, 6} => Len(dates) <= 2 * 10
               /\ (r.days = {5, 6} /\ r.today = 3 /\ r.weeks = 1
                     /\ r.skip \in {NoSkip, 0})
                   => dates = <<r.today + 2, r.today + 3>>)
    /\ [][\A t \in Tasks, id \in Ids :
            /\ At(t, "respond", "get_scheduler")
            /\ tasks[t].id = id /\ Registered(id)
            /\ \A d \in Range(schedulers[id].dates) : (d % 7) \in {5, 6}
            /\ tasks'[t] # tasks[t]
            => Awaiting(t)']_vars

\* C19 witness: a session is presented on a poll of 10 weeks of Saturdays and
\* Sundays, which has 20 dates.
C19_Witness ==
    \E t \in Tasks :
        /\ Awaiting(t)
        /\ Len(tasks[t].dates) = 20
        /\ \A d \in Range(tasks[t].dates) : (d % 7) \in {5, 6}

\* The position of a date among the candidate dates.
Pos(dates, d) == CHOOSE k \in DOMAIN dates : dates[k] = d

\* C15: the non-detailed tally on the summary message has exactly
\* |dates| - |blackout_dates \cap dates| lines, one for each candidate date
\* that is not blacked out, in the order of the candidate dates.
C15_TallyLines ==
    \A id \in Ids :
        Registered(id)
        => LET s == schedulers[id]
               lines == embed[id]
               cand == Range(s.dates)
           IN
           /\ Len(lines) = Len(s.dates) - Cardinality(s.blackout_dates \cap cand)
           /\ {lines[i].date : i \in DOMAIN lines} = cand \ s.blackout_dates
           /\ \A i, j \in DOMAIN lines :
                 i < j => Pos(s.dates, lines[i].date) < Pos(s.dates, lines[j].date)

\* C15 witness: the refresh has rendered a poll whose blackout set holds one
\* candidate date and one date outside the window: one line, for Sunday.
C15_Witness ==
    /\ \E t \in Tasks : tasks[t].kind = "ready" /\ tasks[t].result = "refreshed"
    /\ shown[1] = {"response", "details"}
    /\ schedulers[1].blackout_dates = {Sat, OutsideWindow}
    /\ Len(embed[1]) = 1
    /\ embed[1][1].date = Sun

\* The number of users whose response contains the date.
CountOf(s, d) == Cardinality({u \in DOMAIN s.responses : d \in s.responses[u]})

\* C16: the count of a line is the number of users whose response contains
\* its date, and the line is emphasized exactly when that count equals the
\* largest count among the candidate dates that are not blacked out and that
\* largest count is above 0.
C16_TallyCounts ==
    \A id \in Ids :
        Registered(id)
        => LET s == schedulers[id]
               lines == embed[id]
               open == Range(s.dates) \ s.blackout_dates
           IN
           \A i \in DOMAIN lines :
               /\ lines[i].count = CountOf(s, lines[i].date)
               /\ lines[i].marked <=>
                     /\ lines[i].count > 0
                     /\ \A d \in open : CountOf(s, d) <= lines[i].count

\* C16 witness: the refresh has rendered a poll on which two users chose the
\* blacked-out Saturday and one of them Sunday: the Sunday line has count 1
\* and is emphasized.
C16_Witness ==
    /\ \E t \in Tasks : tasks[t].kind = "ready" /\ tasks[t].result = "refreshed"
    /\ shown[1] = {"response", "details"}
    /\ schedulers[1].blackout_dates = {Sat}
    /\ CountOf(schedulers[1], Sat) = 2
    /\ Len(embed[1]) = 1
    /\ embed[1][1].count = 1
    /\ embed[1][1].marked

\* C17: for lines each shorter than 2000, no message packed by show_details
\* has a length, newlines included, that reaches 2000; and the same lines
\* give the same messages.
C17_ChunkBelowMax ==
    \A t \in Tasks :
        tasks[t].pc = "followups"
        => /\ \A i \in DOMAIN tasks[t].chunks :
                 ContentLen(tasks[t].chunks[i]) < 2000
           /\ ContentLen(tasks[t].last_content) < 2000
           /\ \A u \in Tasks :
                 tasks[u].pc = "followups" /\ tasks[u].results = tasks[t].results
                 => /\ tasks[u].chunks = tasks[t].chunks
                    /\ tasks[u].last_content = tasks[t].last_content

\* remove(id) has run: the message was created and deleted, and no
\* message_delete handler for it is still on its way to the registry
Removed(id) ==
    /\ id < nextId
    /\ id \notin messages
    /\ \A t \in Tasks : ~(tasks[t].kind = "delete" /\ tasks[t].pc = "remove"
                            /\ tasks[t].id = id)

\* C21: removal.  Once remove(id) has run, the registry has no poll for id
\* and no persisted record for id exists, in that state and in every later
\* one (so neither comes back through a later event, a session in flight
\* included); a remove on an absent id changes neither the registry nor the
\* records; and whenever the registry lock is free the persisted record ids
\* are exactly the registered poll ids.
C21_Removal ==
    /\ [](\A id \in Ids : Removed(id) =>
              id \notin DOMAIN schedulers /\ id \notin DOMAIN files)
    /\ []((readers = {} /\ writers = {}) =>
              DOMAIN files = DOMAIN schedulers)
    /\ [][\A t \in Tasks :
              (tasks[t].kind = "delete" /\ tasks[t].pc = "remove"
               /\ tasks'[t] # tasks[t] /\ ~Registered(tasks[t].id))
              => schedulers' = schedulers /\ files' = files]_vars

\* a handler that is about to look up a poll id the registry does not hold
FindsAbsent(t) ==
    /\ tasks[t].kind \in {"respond", "details", "close", "close_yes"}
    /\ AccessorRequest(t)
    /\ t \in readers \cup writers
    /\ ~Registered(tasks[t].id)

\* C22: an event for a poll id that is absent from the registry (a stale
\* show-details, respond or close click, or a session that reaches Submitted
\* after its poll was removed) is dropped: the step that finds the id absent
\* changes no poll and no persisted record and writes nothing, it ends the
\* handler with no accessor held or requested, and it hands the lock on, so
\* that a waiting event is served next.
C22_AbsentIdDropped ==
    [][\A t \in Tasks :
          (FindsAbsent(t) /\ tasks'[t] # tasks[t]) =>
              /\ schedulers' = schedulers
              /\ files' = files
              /\ io' = <<>>
              /\ tasks'[t].pc = "panicked"
              /\ t \notin readers' \cup writers'
              /\ \A i \in DOMAIN waiters' : waiters'[i][1] # t
              /\ (waiters # <<>> => readers' \cup writers' # {})]_vars

\* C22 witness: a session reached Submitted after its poll was removed and
\* was dropped, and the creation of another poll holds the write guard after
\* it.
C22_Witness ==
    /\ ~Registered(1)
    /\ 1 \notin DOMAIN files
    /\ \E t \in Tasks : /\ tasks[t].kind = "respond"
                        /\ tasks[t].pc = "panicked"
                        /\ tasks[t].result = "Submitted"
    /\ \E c \in Tasks : /\ tasks[c].kind = "create"
                        /\ tasks[c].pc = "insert"
                        /\ c \in writers

\* the summary message of poll id does not show the poll as it is
StaleSummary(id) ==
    /\ id \in messages
    /\ Registered(id)
    /\ embed[id] # GetResults(schedulers[id], FALSE)

\* C23: a failure of the summary re-render during record_response,
\* set_blackout or close does not roll the mutation back.  The step that
\* re-renders the summary and releases the exclusive-write accessor leaves the
\* in-memory poll as the mutation made it, whether the edit succeeds or
\* fails, and writes exactly that poll to the persisted record.
C23_NoRollback ==
    [][\A t \in Tasks :
          (tasks[t].pc = "update_message" /\ tasks'[t] # tasks[t]) =>
              /\ schedulers' = schedulers
              /\ tasks[t].id \in DOMAIN files'
              /\ files'[tasks[t].id] = RecordOf(schedulers[tasks[t].id])
              /\ io' = << <<"write", tasks[t].id>> >>
              /\ t \notin writers']_vars

\* C23 witness: a response was recorded, the edit of the summary failed (the
\* message still shows the old tally), the lock is free again and the record
\* holds the response.
C23_Witness ==
    /\ StaleSummary(1)
    /\ schedulers[1].responses # <<>>
    /\ files[1] = RecordOf(schedulers[1])
    /\ readers = {} /\ writers = {}
    /\ \E t \in Tasks : tasks[t].pc = "done" /\ tasks[t].result = "Submitted"

\* the dates of the lines of a tally
LineDates(lines) == {lines[i].date : i \in DOMAIN lines}

\* C24: set_blackout(r) replaces blackout_dates wholesale with r's dates and
\* changes nothing else of the poll (responses, candidate dates, closed,
\* owner and the rest are as before) and nothing of any other poll; the
\* tally of the poll then has a line for exactly the candidate dates that are
\* not in r, and the count of every such line is the number of users whose
\* response holds the date, the same count the line had in the tally before.
C24_SetBlackout ==
    [][\A t \in Tasks, id \in Ids :
          (/\ tasks[t].pc = "get_mut_scheduler"
           /\ tasks[t].resp_type = "Blackout"
           /\ tasks[t].id = id
           /\ Registered(id)
           /\ tasks'[t] # tasks[t])
          => /\ schedulers' =
                  [schedulers EXCEPT ![id].blackout_dates = tasks[t].response]
             /\ LET before == GetResults(schedulers[id], FALSE)
                    after == GetResults(schedulers'[id], FALSE)
                IN  /\ LineDates(after) =
                          Range(schedulers[id].dates) \ tasks[t].response
                    /\ \A i \in DOMAIN after :
                          /\ after[i].count =
                                CountOf(schedulers[id], after[i].date)
                          /\ \A j \in DOMAIN before :
                                before[j].date = after[i].date
                                => before[j].count = after[i].count]_vars

\* C24 witness: on a poll where both users chose Saturday and one chose
\* Sunday the owner's blackout session has just replaced the blackout set
\* {Saturday} by {Sunday}: the summary still shows the Sunday line, and the
\* tally of the poll is now one line, Saturday with count 2.
C24_Witness ==
    /\ Registered(1)
    /\ schedulers[1].blackout_dates = {Sun}
    /\ files[1].blackout_dates = {Sat}
    /\ CountOf(schedulers[1], Sat) = 2
    /\ CountOf(schedulers[1], Sun) = 1
    /\ LineDates(embed[1]) = {Sun}
    /\ LineDates(GetResults(schedulers[1], FALSE)) = {Sat}
    /\ GetResults(schedulers[1], FALSE)[1].count = 2
    /\ \E t \in Tasks : /\ tasks[t].kind = "respond"
                        /\ tasks[t].pc = "update_message"
                        /\ tasks[t].resp_type = "Blackout"
                        /\ tasks[t].response = {Sun}
                        /\ t \in writers

\* C25: the response that a Normal session returns at Submitted holds no date
\* of the blackout set the session was started with, whatever response of the
\* user seeded the draft and whatever buttons were pressed before submit.
C25_NoBlackoutDateSubmitted ==
    \A t \in Tasks :
        (/\ tasks[t].kind = "respond"
         /\ tasks[t].resp_type = "Normal"
         /\ tasks[t].pc = "get_mut_scheduler"
         /\ tasks[t].result = "Submitted")
        => tasks[t].response \cap tasks[t].blackout_dates = {}

\* C26: in a session, select(index) toggles the membership of exactly
\* candidate_dates[index] in the draft and leaves every other date as it was,
\* so that a second select(index) restores the draft; clear_all makes the
\* draft empty; and no button press short of submit touches a poll, a
\* persisted record or the registry lock.
C26_SelectToggles ==
    [][\A t \in Tasks :
          (/\ tasks[t].kind = "respond"
           /\ tasks[t].pc = "await"
           /\ tasks'[t].pc = "await"
           /\ tasks'[t] # tasks[t])
          => /\ tasks'[t].button_id = "select" =>
                  LET date == tasks[t].dates[tasks'[t].data + 1] IN
                  /\ date \in tasks'[t].response <=> date \notin tasks[t].response
                  /\ \A e \in (tasks[t].response \cup tasks'[t].response
                                \cup Range(tasks[t].dates)) \ {date} :
                        e \in tasks'[t].response <=> e \in tasks[t].response
                  /\ SelectToggle(tasks'[t].response, tasks[t].dates,
                                  tasks'[t].data) = tasks[t].response
             /\ tasks'[t].button_id = "clear_all" => tasks'[t].response = {}
             /\ tasks'[t].button_id \in {"select", "select_all", "clear_all"}
             /\ schedulers' = schedulers
             /\ files' = files
             /\ <<readers, writers, waiters>>' = <<readers, writers, waiters>>
             /\ io' = <<>>]_vars

\* C26 witness: a user without a stored response, in a Normal session, whose
\* last press was select(0) and whose draft is empty again: the Saturday was
\* toggled in and out.
C26_Witness ==
    /\ Registered(1)
    /\ schedulers[1].responses = <<>>
    /\ schedulers[1].blackout_dates = {}
    /\ \E t \in Tasks : /\ tasks[t].kind = "respond"
                        /\ tasks[t].pc = "await"
                        /\ tasks[t].resp_type = "Normal"
                        /\ tasks[t].button_id = "select"
                        /\ tasks[t].data = 0
                        /\ tasks[t].response = {}

\* the summary message of poll id offers the respond or the show-details
\* action
Offers(id) == id \in messages /\ shown[id] \cap {"response", "details"} # {}

\* a component event on the summary message of a poll whose creation command
\* has not returned yet
EventDuringCreation(t) ==
    /\ tasks[t].kind \in {"respond", "details"}
    /\ tasks[t].pc = "get_scheduler"
    /\ t \in readers
    /\ \E c \in Tasks : /\ tasks[c].kind = "create"
                        /\ tasks[c].pc \in {"write", "insert"}
                        /\ tasks[c].id = tasks[t].id

\* C27: creation ordering.  Whenever the summary message of a poll offers the
\* respond or the show-details action, the poll is in the registry; and no
\* component event on a new summary message, however it interleaves with the
\* creation command, looks its poll up while the poll is absent.
C27_CreationOrdering ==
    /\ \A id \in Ids : Offers(id) => Registered(id)
    /\ \A t \in Tasks : EventDuringCreation(t) => Registered(tasks[t].id)

\* the steps a handler takes under a registry accessor
HolderStep(t) ==
    \/ GetResponseRead(t)
    \/ CommitMutate(t)
    \/ UpdateAndDrop(t)
    \/ ShowDetails(t)
    \/ ClosePrompt(t)
    \/ HandleClose(t)
    \/ CreateInsert(t)
    \/ MessageDeleteRemove(t)

\* the handler has asked for an accessor in this step
Requests(t) ==
    \/ t \in readers' \ readers
    \/ t \in writers' \ writers
    \/ /\ \E i \in DOMAIN waiters' : waiters'[i][1] = t
       /\ ~Queued(t)

\* C28: no event handler requests a registry accessor while it still holds
\* one, and a handler that waits for its user or for an accessor holds none
\* (the session handler has dropped its read accessor before the session
\* starts and before it asks for the exclusive-write accessor); so there is
\* no deadlock: in every reachable state in which a handler waits for an
\* accessor, a handler that holds the lock can take its next step.
C28_NoDeadlock ==
    /\ [][\A t \in Tasks :
              Requests(t) => t \notin readers \cup writers]_vars
    /\ [](\A t \in Tasks :
              (Queued(t) \/ tasks[t].pc = "await")
              => t \notin readers \cup writers)
    /\ [](waiters # <<>> =>
              \E t \in readers \cup writers : ENABLED HolderStep(t))

\* C28 witness: a submitted session waits for the exclusive-write accessor,
\* holding nothing, behind a handler that holds a read accessor.
C28_Witness ==
    /\ readers # {}
    /\ \E t \in Tasks : /\ tasks[t].kind = "respond"
                        /\ tasks[t].pc = "get_mut_scheduler"
                        /\ tasks[t].result = "Submitted"
                        /\ Queued(t)
                        /\ t \notin readers \cup writers
====
